---- MODULE Spec2Model ----
(***************************************************************************)
(* Model of src/src/SubsPlease.ts: the SubsPlease torrent provider.        *)
(*                                                                         *)
(* Strings the code inspects character by character (magnet URIs, episode  *)
(* labels, quality and resolution labels) are sequences of one-character   *)
(* strings.  Strings the code only passes through (query, show, page) are  *)
(* TLA+ strings.  JavaScript numbers are integers, with NaN a value of its *)
(* own that is strictly equal to nothing, itself included.                 *)
(***************************************************************************)
EXTENDS Integers, Sequences, FiniteSets, TLC

(***************************************************************************)
(* Bounds of the model.                                                    *)
(***************************************************************************)
MaxMagnetTokens == 4
MaxReleases == 2
MaxClock == 1
NumCalls == 2

(***************************************************************************)
(* JavaScript primitives used by the provider.                             *)
(***************************************************************************)
NaN == -1000000

LowerChars ==
  <<"a","b","c","d","e","f","g","h","i","j","k","l","m",
    "n","o","p","q","r","s","t","u","v","w","x","y","z">>

UpperChars ==
  <<"A","B","C","D","E","F","G","H","I","J","K","L","M",
    "N","O","P","Q","R","S","T","U","V","W","X","Y","Z">>

DigitChars == <<"0","1","2","3","4","5","6","7","8","9">>

WhiteSpaceChars == {" "}

IsLower(ch) == \E k \in 1..26 : LowerChars[k] = ch

IsUpper(ch) == \E k \in 1..26 : UpperChars[k] = ch

IsDigit(ch) == \E k \in 1..10 : DigitChars[k] = ch

\* the character class [a-zA-Z0-9]
IsAlnum(ch) == IsLower(ch) \/ IsUpper(ch) \/ IsDigit(ch)

DigitValue(ch) == (CHOOSE k \in 1..10 : DigitChars[k] = ch) - 1

ToUpperChar(ch) ==
  IF IsLower(ch) THEN UpperChars[CHOOSE k \in 1..26 : LowerChars[k] = ch] ELSE ch

\* String.prototype.toUpperCase
ToUpperCase(s) == [i \in 1..Len(s) |-> ToUpperChar(s[i])]

IsNaN(n) == n = NaN

\* the === operator on numbers
StrictEq(a, b) == a # NaN /\ b # NaN /\ a = b

\* s.startsWith(lit, i) with i a 1-based position
MatchesAt(s, i, lit) ==
  /\ i + Len(lit) - 1 <= Len(s)
  /\ \A k \in 1..Len(lit) : s[i + k - 1] = lit[k]

\* end of the longest run of characters of a class that starts at position i
\* (i - 1 when s[i] is not of the class): a greedy "+" or "*"
RECURSIVE DigitRunEnd(_, _)
DigitRunEnd(s, i) ==
  IF i <= Len(s) /\ IsDigit(s[i]) THEN DigitRunEnd(s, i + 1) ELSE i - 1

RECURSIVE AlnumRunEnd(_, _)
AlnumRunEnd(s, i) ==
  IF i <= Len(s) /\ IsAlnum(s[i]) THEN AlnumRunEnd(s, i + 1) ELSE i - 1

RECURSIVE SkipWhiteSpace(_, _)
SkipWhiteSpace(s, i) ==
  IF i <= Len(s) /\ s[i] \in WhiteSpaceChars THEN SkipWhiteSpace(s, i + 1) ELSE i

\* value of a sequence of decimal digits
RECURSIVE DecimalValue(_)
DecimalValue(ds) ==
  IF ds = <<>> THEN 0
  ELSE 10 * DecimalValue(SubSeq(ds, 1, Len(ds) - 1)) + DigitValue(ds[Len(ds)])

\* parseInt(s, 10): leading white space, an optional sign, then the longest
\* run of digits; NaN when there is no digit
ParseInt(s) ==
  LET i0 == SkipWhiteSpace(s, 1)
      signed == i0 <= Len(s) /\ s[i0] \in {"+", "-"}
      i1 == IF signed THEN i0 + 1 ELSE i0
      e == DigitRunEnd(s, i1)
  IN  IF e < i1 THEN NaN
      ELSE IF signed /\ s[i0] = "-" THEN 0 - DecimalValue(SubSeq(s, i1, e))
      ELSE DecimalValue(SubSeq(s, i1, e))

\* s.replace('p', ''): only the first occurrence is removed
RECURSIVE RemoveFirst(_, _)
RemoveFirst(s, ch) ==
  IF s = <<>> THEN <<>>
  ELSE IF Head(s) = ch THEN Tail(s)
  ELSE <<Head(s)>> \o RemoveFirst(Tail(s), ch)

\* the decimal digits of a natural number
RECURSIVE NatToString(_)
NatToString(n) ==
  IF n < 10 THEN <<DigitChars[n + 1]>>
  ELSE NatToString(n \div 10) \o <<DigitChars[(n % 10) + 1]>>

\* String(n)
NumberToString(n) ==
  IF n = NaN THEN <<"N", "a", "N">>
  ELSE IF n < 0 THEN <<"-">> \o NatToString(0 - n)
  ELSE NatToString(n)

\* s.padStart(len, '0')
RECURSIVE PadStartZero(_, _)
PadStartZero(s, len) ==
  IF Len(s) >= len THEN s ELSE PadStartZero(<<"0">> \o s, len)

(***************************************************************************)
(* Magnet parser (getHashFromMagnet, getSizeFromMagnet).                   *)
(***************************************************************************)
BtihMarker == <<"b", "t", "i", "h", ":">>

XlMarker == <<"x", "l", "=">>

\* leftmost match of /btih:([a-zA-Z0-9]+)/ at or after position i: the start
\* of the match, 0 when there is none
RECURSIVE HashMatchFrom(_, _)
HashMatchFrom(s, i) ==
  IF i > Len(s) THEN 0
  ELSE IF MatchesAt(s, i, BtihMarker) /\ AlnumRunEnd(s, i + 5) >= i + 5 THEN i
  ELSE HashMatchFrom(s, i + 1)

\* leftmost match of /xl=(\d+)/ at or after position i
RECURSIVE SizeMatchFrom(_, _)
SizeMatchFrom(s, i) ==
  IF i > Len(s) THEN 0
  ELSE IF MatchesAt(s, i, XlMarker) /\ DigitRunEnd(s, i + 3) >= i + 3 THEN i
  ELSE SizeMatchFrom(s, i + 1)

\* variant: the token as written, toUpperCase() forgotten
GetHashNoUpper(magnet) ==
  LET m == HashMatchFrom(magnet, 1)
  IN  IF m = 0 THEN <<>>
      ELSE SubSeq(magnet, m + 5, AlnumRunEnd(magnet, m + 5))

\* magnet.match(/btih:([a-zA-Z0-9]+)/), then match[1].toUpperCase() or ""
getHashFromMagnet(magnet) ==
  LET m == HashMatchFrom(magnet, 1)
  IN  IF m = 0 THEN <<>>
      ELSE ToUpperCase(SubSeq(magnet, m + 5, AlnumRunEnd(magnet, m + 5)))

\* magnet.match(/xl=(\d+)/), then parseInt(match[1], 10) or 0
getSizeFromMagnet(magnet) ==
  LET m == SizeMatchFrom(magnet, 1)
  IN  IF m = 0 THEN 0
      ELSE ParseInt(SubSeq(magnet, m + 3, DigitRunEnd(magnet, m + 3)))

\* `${(sizeInBytes / (1024 * 1024)).toFixed(2)} MB`, or "N/A": the label is
\* the unit and the number of hundredths of a megabyte, rounded to nearest
FormattedSize(sizeInBytes) ==
  IF sizeInBytes > 0
  THEN [unit |-> "MB", hundredths |-> (sizeInBytes * 100 + 524288) \div 1048576]
  ELSE [unit |-> "N/A", hundredths |-> 0]

(***************************************************************************)
(* Release normalizer (apiReleaseToAnimeTorrents) and result set builder   *)
(* (the body of fetchAndParseSearchResults after the fetch).               *)
(***************************************************************************)
BatchLabel == <<"B", "a", "t", "c", "h">>

ValidReleaseDate == "2024-01-01T00:00:00Z"

\* new Date(release_date).getTime(), in clock ticks: the model's one valid
\* date string is tick 0, any other string is an invalid date
DateGetTime(release_date) == IF release_date = ValidReleaseDate THEN 0 ELSE NaN

\* variant: the unit is not appended
ResolutionNoUnit(res) == res

\* download.res + "p"
ResolutionLabel(res) == res \o <<"p">>

\* variant: no release is taken for a batch
IsBatchLabelNever(episode) == FALSE

\* release.episode !== "Batch" is the negation of this
IsBatchLabel(episode) == episode = BatchLabel

\* the object pushed for one download; clock is what new Date() returns
AnimeTorrent(release, download, clock) ==
  LET episodeNumber == ParseInt(release.episode)
      parsedDate == DateGetTime(release.release_date)
      resolution == ResolutionLabel(download.res)
      sizeInBytes == getSizeFromMagnet(download.magnet)
  IN  [ name |-> << "[SubsPlease] ", release.show, " - ",
                    PadStartZero(NumberToString(episodeNumber), 2),
                    " (", resolution, ") [",
                    getHashFromMagnet(download.magnet), "].mkv" >>,
        date |-> IF ~IsNaN(parsedDate) THEN parsedDate ELSE clock,
        size |-> sizeInBytes,
        formattedSize |-> FormattedSize(sizeInBytes),
        seeders |-> -1,
        leechers |-> -1,
        downloadCount |-> 0,
        link |-> <<"https://subsplease.org/shows/", release.page, "/">>,
        downloadUrl |-> "",
        magnetLink |-> download.magnet,
        infoHash |-> getHashFromMagnet(download.magnet),
        resolution |-> resolution,
        isBatch |-> FALSE,
        episodeNumber |-> IF IsNaN(episodeNumber) THEN -1 ELSE episodeNumber,
        releaseGroup |-> "SubsPlease",
        isBestRelease |-> FALSE,
        confirmed |-> TRUE ]

apiReleaseToAnimeTorrents(release, clock) ==
  [i \in 1..Len(release.downloads) |-> AnimeTorrent(release, release.downloads[i], clock)]

\* the for-in loop over the decoded payload; releases is the payload's
\* values in iteration order, acc the local array torrents
RECURSIVE PushReleases(_, _, _)
PushReleases(releases, clock, acc) ==
  IF releases = <<>> THEN acc
  ELSE LET release == Head(releases)
       IN  PushReleases(Tail(releases), clock,
             IF ~IsBatchLabel(release.episode)
             THEN acc \o apiReleaseToAnimeTorrents(release, clock)
             ELSE acc)

\* data is the decoded body: an object of releases, or a value that fails
\* the test data && typeof data === 'object'
ParseSearchResults(data, clock) ==
  IF data.tag = "object" THEN PushReleases(data.releases, clock, <<>>) ELSE <<>>

(***************************************************************************)
(* Smart filter (the body of smartSearch after the fetch).                 *)
(***************************************************************************)
\* variant: the batch flag is ignored
IsBatchRequestedNever(opts) == FALSE

\* if (opts.batch)
IsBatchRequested(opts) == opts.batch

\* opts.query || opts.media.romajiTitle || opts.media.englishTitle || ""
EffectiveQuery(opts) ==
  IF opts.query # "" THEN opts.query
  ELSE IF opts.romajiTitle # "" THEN opts.romajiTitle
  ELSE IF opts.englishTitle # "" THEN opts.englishTitle
  ELSE ""

\* variant: the absolute episode is not accepted
EpisodeMatchesTargetOnly(t, opts) ==
  ~t.isBatch /\ StrictEq(t.episodeNumber, opts.episodeNumber)

\* the predicate of the episode filter
EpisodeMatches(t, opts) ==
  LET absoluteEpisode == opts.absoluteSeasonOffset + opts.episodeNumber
  IN  ~t.isBatch /\ ( StrictEq(t.episodeNumber, opts.episodeNumber)
                      \/ StrictEq(t.episodeNumber, absoluteEpisode) )

\* the block if (opts.episodeNumber > 0)
EpisodeFilter(allTorrents, opts) ==
  IF opts.episodeNumber > 0
  THEN SelectSeq(allTorrents, LAMBDA t : EpisodeMatches(t, opts))
  ELSE allTorrents

\* variant: >= in place of ===
ResolutionMatchesAtLeast(t, targetRes) ==
  LET torrentRes == ParseInt(RemoveFirst(t.resolution, "p"))
  IN  torrentRes >= targetRes

\* the predicate of the resolution filter
ResolutionMatches(t, targetRes) ==
  LET torrentRes == ParseInt(RemoveFirst(t.resolution, "p"))
  IN  StrictEq(torrentRes, targetRes)

\* the block if (opts.resolution)
ResolutionFilter(filtered, opts) ==
  IF opts.resolution # <<>>
  THEN LET targetRes == ParseInt(RemoveFirst(opts.resolution, "p"))
       IN  IF ~IsNaN(targetRes)
           THEN SelectSeq(filtered, LAMBDA t : ResolutionMatches(t, targetRes))
           ELSE filtered
  ELSE filtered

\* variant: the resolution filter is applied to allTorrents, not to filtered
SmartFilterResolutionOnAll(allTorrents, opts) ==
  IF opts.resolution # <<>> /\ ~IsNaN(ParseInt(RemoveFirst(opts.resolution, "p")))
  THEN ResolutionFilter(allTorrents, opts)
  ELSE EpisodeFilter(allTorrents, opts)

\* the two blocks in sequence, each on the result of the one before
SmartFilter(allTorrents, opts) ==
  ResolutionFilter(EpisodeFilter(allTorrents, opts), opts)

\* variant: the status is not looked at
ResponseOkAlways(st) == TRUE

\* response.ok
ResponseOk(st) == st \in 200..299

(***************************************************************************)
(* Inputs: what the host passes and what the transport answers.            *)
(***************************************************************************)
MagnetPrefix ==
  <<"m","a","g","n","e","t",":","?","x","t","=","u","r","n",":">>

\* "magnet:?xt=urn:btih:ABCD1234&xl=1048576"
MagnetWithSize ==
  MagnetPrefix \o BtihMarker \o <<"A","B","C","D","1","2","3","4","&">>
    \o XlMarker \o <<"1","0","4","8","5","7","6">>

\* "magnet:?xt=urn:btih:"
MagnetBare == MagnetPrefix \o BtihMarker

\* "magnet:?xt=urn:btih:ab9f&xl=500"
MagnetLower ==
  MagnetPrefix \o BtihMarker \o <<"a","b","9","f","&">> \o XlMarker \o <<"5","0","0">>

Download720 == [res |-> <<"7","2","0">>, magnet |-> MagnetLower]

Download1080 == [res |-> <<"1","0","8","0">>, magnet |-> MagnetWithSize]

DownloadSD == [res |-> <<"S","D">>, magnet |-> MagnetBare]

Release(show, episode, downloads, release_date, page) ==
  [ show |-> show, episode |-> episode, downloads |-> downloads,
    release_date |-> release_date, page |-> page ]

Releases ==
  { Release("X", <<"5">>, <<Download720, Download1080>>, ValidReleaseDate, "x"),
    Release("X", <<"1","7">>, <<Download1080>>, "", "x"),
    Release("X", <<"6">>, <<Download720>>, ValidReleaseDate, "x"),
    Release("X", BatchLabel, <<Download720, Download1080>>, ValidReleaseDate, "x"),
    Release("Y", <<"M","o","v","i","e">>, <<DownloadSD>>, ValidReleaseDate, "y"),
    Release("Y", <<"-","5">>, <<Download720>>, ValidReleaseDate, "y"),
    Release("Y", <<"0","5">>, <<>>, "", "y") }

SeqsUpTo(S, n) == UNION { [1..k -> S] : k \in 0..n }

\* a decoded response body: the releases of a JSON object in iteration order,
\* the JSON value null, or a body that is not JSON
ObjectBody(releases) == [tag |-> "object", releases |-> releases]

NullBody == [tag |-> "null", releases |-> <<>>]

InvalidBody == [tag |-> "invalid", releases |-> <<>>]

NoBody == [tag |-> "none", releases |-> <<>>]

Bodies == { ObjectBody(rs) : rs \in SeqsUpTo(Releases, MaxReleases) } \cup {NullBody, InvalidBody}

Statuses == {200, 404, 500}

Args(kind, query, romajiTitle, englishTitle, batch, episodeNumber, absoluteSeasonOffset, resolution) ==
  [ kind |-> kind, query |-> query, romajiTitle |-> romajiTitle,
    englishTitle |-> englishTitle, batch |-> batch,
    episodeNumber |-> episodeNumber,
    absoluteSeasonOffset |-> absoluteSeasonOffset, resolution |-> resolution ]

NoArgs == Args("none", "", "", "", FALSE, 0, 0, <<>>)

Titles == { <<"q", "r", "e">>, <<"", "r", "e">>, <<"", "", "e">>, <<"", "", "">> }

TargetResolutions ==
  { <<>>, <<"7","2","0","p">>, <<"0","7","2","0">>, <<"1","0","8","0","p">>,
    <<"b","e","s","t">> }

SmartSearchArgs ==
  { Args("smartSearch", t[1], t[2], t[3], b, e, o, r) :
      t \in Titles, b \in BOOLEAN, e \in {-1, 0, 5}, o \in {0, 12},
      r \in TargetResolutions }

AllArgs ==
  {Args("getLatest", "", "", "", FALSE, 0, 0, <<>>)}
  \cup { Args("search", q, "", "", FALSE, 0, 0, <<>>) : q \in {"", "q"} }
  \cup SmartSearchArgs

(***************************************************************************)
(* State.  Every variable but now is indexed by the call: it is a local    *)
(* of that invocation of getLatest, search or smartSearch.                 *)
(***************************************************************************)
VARIABLES
  now,        \* what new Date() returns
  pc,         \* where the call is: idle, awaitFetch, awaitJson, awaitResult, done
  args,       \* the call's operation and options
  fetchArg,   \* the query passed to fetchAndParseSearchResults
  requests,   \* number of fetch() requests the call has issued
  status,     \* response.status, 0 before the response
  decoded,    \* response.json() was called
  body,       \* the decoded body
  clockRead,  \* the clock when the call normalized its payload, 0 before
  torrents,   \* the array returned by fetchAndParseSearchResults
  epKept,     \* smartSearch's filtered after the episode block
  outcome,    \* what the call's promise settled with
  magnet,     \* input of the magnet parser
  parsed      \* its output

vars == << now, pc, args, fetchArg, requests, status, decoded, body, clockRead,
           torrents, epKept, outcome, magnet, parsed >>

Calls == 1..NumCalls

NoOutcome == [tag |-> "none", error |-> "", status |-> 0, list |-> <<>>]

Returned(list) == [tag |-> "list", error |-> "", status |-> 0, list |-> list]

Thrown(error, st) == [tag |-> "error", error |-> error, status |-> st, list |-> <<>>]

NotParsed == [done |-> FALSE, infoHash |-> <<>>, size |-> 0, formattedSize |-> FormattedSize(0)]

InitCalls ==
  /\ now = 1
  /\ pc = [c \in Calls |-> "idle"]
  /\ args = [c \in Calls |-> NoArgs]
  /\ fetchArg = [c \in Calls |-> ""]
  /\ requests = [c \in Calls |-> 0]
  /\ status = [c \in Calls |-> 0]
  /\ decoded = [c \in Calls |-> FALSE]
  /\ body = [c \in Calls |-> NoBody]
  /\ clockRead = [c \in Calls |-> 0]
  /\ torrents = [c \in Calls |-> <<>>]
  /\ epKept = [c \in Calls |-> <<>>]
  /\ outcome = [c \in Calls |-> NoOutcome]

callVars == << now, pc, args, fetchArg, requests, status, decoded, body,
               clockRead, torrents, epKept, outcome >>

Init ==
  /\ InitCalls
  /\ magnet = <<>>
  /\ parsed = NotParsed

(***************************************************************************)
(* The operations, one action per stretch of code between two awaits.      *)
(***************************************************************************)
\* the query each operation passes to fetchAndParseSearchResults
QueryOf(a) ==
  IF a.kind = "getLatest" THEN ""
  ELSE IF a.kind = "search" THEN a.query
  ELSE EffectiveQuery(a)

\* the host calls getLatest, search or smartSearch: up to the await of fetch
Invoke(c, a) ==
  /\ pc[c] = "idle"
  /\ args' = [args EXCEPT ![c] = a]
  /\ IF a.kind = "smartSearch" /\ IsBatchRequested(a)
     THEN /\ pc' = [pc EXCEPT ![c] = "done"]
          /\ outcome' = [outcome EXCEPT ![c] = Returned(<<>>)]
          /\ UNCHANGED << fetchArg, requests >>
     ELSE /\ pc' = [pc EXCEPT ![c] = "awaitFetch"]
          /\ fetchArg' = [fetchArg EXCEPT ![c] = QueryOf(a)]
          /\ requests' = [requests EXCEPT ![c] = @ + 1]
          /\ UNCHANGED outcome
  /\ UNCHANGED << now, status, decoded, body, clockRead, torrents, epKept,
                  magnet, parsed >>

\* fetch settles with a response of status st: up to the await of json()
FetchResolve(c, st) ==
  /\ pc[c] = "awaitFetch"
  /\ status' = [status EXCEPT ![c] = st]
  /\ IF ~ResponseOk(st)
     THEN /\ pc' = [pc EXCEPT ![c] = "done"]
          /\ outcome' = [outcome EXCEPT ![c] = Thrown("FetchFailure", st)]
          /\ UNCHANGED decoded
     ELSE /\ pc' = [pc EXCEPT ![c] = "awaitJson"]
          /\ decoded' = [decoded EXCEPT ![c] = TRUE]
          /\ UNCHANGED outcome
  /\ UNCHANGED << now, args, fetchArg, requests, body, clockRead, torrents,
                  epKept, magnet, parsed >>

\* variant: torrents is one array of the provider, shared by its calls
StoreTorrentsShared(c, ts) == [d \in Calls |-> ts]

\* the local array torrents of fetchAndParseSearchResults
StoreTorrents(c, ts) == [torrents EXCEPT ![c] = ts]

\* json() settles with body b: the loop, up to the return of
\* fetchAndParseSearchResults
JsonResolve(c, b) ==
  /\ pc[c] = "awaitJson"
  /\ body' = [body EXCEPT ![c] = b]
  /\ IF b.tag = "invalid"
     THEN /\ pc' = [pc EXCEPT ![c] = "done"]
          /\ outcome' = [outcome EXCEPT ![c] = Thrown("SyntaxError", 0)]
          /\ UNCHANGED << clockRead, torrents >>
     ELSE /\ pc' = [pc EXCEPT ![c] = "awaitResult"]
          /\ clockRead' = [clockRead EXCEPT ![c] = now]
          /\ torrents' = StoreTorrents(c, ParseSearchResults(b, now))
          /\ UNCHANGED outcome
  /\ UNCHANGED << now, args, fetchArg, requests, status, decoded, epKept,
                  magnet, parsed >>

\* the caller of fetchAndParseSearchResults resumes and returns
Return(c) ==
  /\ pc[c] = "awaitResult"
  /\ pc' = [pc EXCEPT ![c] = "done"]
  /\ IF args[c].kind = "smartSearch"
     THEN /\ epKept' = [epKept EXCEPT ![c] = EpisodeFilter(torrents[c], args[c])]
          /\ outcome' = [outcome EXCEPT ![c] = Returned(SmartFilter(torrents[c], args[c]))]
     ELSE /\ outcome' = [outcome EXCEPT ![c] = Returned(torrents[c])]
          /\ UNCHANGED epKept
  /\ UNCHANGED << now, args, fetchArg, requests, status, decoded, body,
                  clockRead, torrents, magnet, parsed >>

\* time passes
Tick ==
  /\ now <= MaxClock
  /\ now' = now + 1
  /\ UNCHANGED << pc, args, fetchArg, requests, status, decoded, body,
                  clockRead, torrents, epKept, outcome, magnet, parsed >>

\* one call, any arguments, any response; the call reads the clock once, so
\* the passing of time is left to the concurrent specification
Next ==
  \/ \E a \in AllArgs : Invoke(1, a)
  \/ \E st \in Statuses : FetchResolve(1, st)
  \/ \E b \in Bodies : JsonResolve(1, b)
  \/ Return(1)

Spec == Init /\ [][Next]_vars

(***************************************************************************)
(* Concurrent calls: the host starts NumCalls operations and their awaits  *)
(* settle in any order.                                                    *)
(***************************************************************************)
ConcurrentArgs ==
  { Args("search", "q", "", "", FALSE, 0, 0, <<>>),
    Args("smartSearch", "", "r", "e", FALSE, 5, 12, <<"1","0","8","0","p">>),
    Args("smartSearch", "q", "r", "e", TRUE, 5, 12, <<>>) }

ConcurrentStatuses == {200, 404}

ConcurrentBodies ==
  { ObjectBody(<< Release("X", <<"1","7">>, <<Download1080>>, "", "x") >>),
    ObjectBody(<< Release("X", <<"5">>, <<Download720, Download1080>>, ValidReleaseDate, "x") >>) }

NextConcurrent ==
  \/ \E c \in Calls, a \in ConcurrentArgs : Invoke(c, a)
  \/ \E c \in Calls, st \in ConcurrentStatuses : FetchResolve(c, st)
  \/ \E c \in Calls, b \in ConcurrentBodies : JsonResolve(c, b)
  \/ \E c \in Calls : Return(c)
  \/ Tick

SpecConcurrent == Init /\ [][NextConcurrent]_vars

(***************************************************************************)
(* The magnet parser on its own, over strings made of the two markers and  *)
(* of characters in and out of the classes the patterns use.               *)
(***************************************************************************)
MagnetTokens ==
  { BtihMarker, XlMarker, <<"a">>, <<"F">>, <<"7">>, <<"0">>, <<"&">> }

RECURSIVE Flatten(_)
Flatten(ts) == IF ts = <<>> THEN <<>> ELSE Head(ts) \o Flatten(Tail(ts))

MagnetStrings ==
  { Flatten(ts) : ts \in SeqsUpTo(MagnetTokens, MaxMagnetTokens) }
  \cup {MagnetWithSize, MagnetBare, MagnetLower}

InitMagnet ==
  /\ InitCalls
  /\ magnet \in MagnetStrings
  /\ parsed = NotParsed

\* what apiReleaseToAnimeTorrents derives from download.magnet
ParseMagnet ==
  /\ ~parsed.done
  /\ parsed' = [ done |-> TRUE,
                 infoHash |-> getHashFromMagnet(magnet),
                 size |-> getSizeFromMagnet(magnet),
                 formattedSize |-> FormattedSize(getSizeFromMagnet(magnet)) ]
  /\ UNCHANGED << magnet, callVars >>

NextMagnet == ParseMagnet

SpecMagnet == InitMagnet /\ [][NextMagnet]_vars

(***************************************************************************)
(* Properties.                                                             *)
(***************************************************************************)
Range(f) == { f[i] : i \in DOMAIN f }

Done(c) == pc[c] = "done"

\* the call has run the result set builder on its payload
Built(c) == pc[c] \in {"awaitResult", "done"} /\ clockRead[c] # 0

\* a smartSearch without batch that returned a list
SmartDone(c) ==
  /\ Done(c)
  /\ args[c].kind = "smartSearch"
  /\ ~args[c].batch
  /\ outcome[c].tag = "list"

\* one entry per download of the payload, in iteration order: the download
\* with the episode label of its release
RECURSIVE LabelledDownloads(_)
LabelledDownloads(releases) ==
  IF releases = <<>> THEN <<>>
  ELSE [i \in 1..Len(Head(releases).downloads) |->
          [label |-> Head(releases).episode, download |-> Head(releases).downloads[i]]]
       \o LabelledDownloads(Tail(releases))

NonBatchDownloads(releases) ==
  SelectSeq(LabelledDownloads(releases), LAMBDA d : d.label # BatchLabel)

\* C1: smartSearch with batch requested returns an empty list at once,
\* whatever the other options: no request is issued, no response is read.
C1_BatchReturnsEmpty ==
  \A c \in Calls :
    (args[c].kind = "smartSearch" /\ args[c].batch)
      => /\ Done(c)
         /\ outcome[c].tag = "list"
         /\ outcome[c].list = <<>>
         /\ requests[c] = 0
         /\ status[c] = 0
         /\ ~decoded[c]

C1_Witness ==
  \E c \in Calls :
    /\ Done(c)
    /\ args[c].kind = "smartSearch"
    /\ args[c].batch
    /\ args[c].query = "q"
    /\ args[c].episodeNumber = 5
    /\ args[c].absoluteSeasonOffset = 12
    /\ args[c].resolution = <<"7","2","0","p">>
    /\ outcome[c].list = <<>>

\* C2: a release labelled "Batch" contributes no entity: the built list has
\* as many entities as the other releases have downloads, every entity has
\* batch flag false, and a returned entity is one of the built list.
C2_BatchDropped ==
  \A c \in Calls :
    Built(c) =>
      /\ Len(torrents[c]) = Len(NonBatchDownloads(body[c].releases))
      /\ \A t \in Range(torrents[c]) : ~t.isBatch
      /\ outcome[c].tag = "list" =>
           \A t \in Range(outcome[c].list) : ~t.isBatch /\ t \in Range(torrents[c])

C2_Witness ==
  \E c \in Calls :
    /\ Done(c)
    /\ Built(c)
    /\ Len(body[c].releases) = 2
    /\ body[c].releases[1].episode = BatchLabel
    /\ Len(body[c].releases[1].downloads) = 2
    /\ body[c].releases[2].episode = <<"6">>
    /\ Len(outcome[c].list) = 1

\* C3: a non-batch release with k downloads gives k entities, the i-th with
\* the i-th download's magnet and its quality label followed by "p"; the
\* built list is these sequences in payload order, and getLatest and search
\* return it.
C3_OnePerDownload ==
  \A c \in Calls :
    Built(c) =>
      LET ds == NonBatchDownloads(body[c].releases)
      IN  /\ Len(torrents[c]) = Len(ds)
          /\ \A i \in 1..Len(ds) :
               /\ torrents[c][i].magnetLink = ds[i].download.magnet
               /\ torrents[c][i].resolution = ds[i].download.res \o <<"p">>
          /\ (Done(c) /\ args[c].kind \in {"getLatest", "search"})
               => outcome[c] = Returned(torrents[c])

C3_Witness ==
  \E c \in Calls :
    /\ Done(c)
    /\ Built(c)
    /\ args[c].kind = "search"
    /\ Len(body[c].releases) = 2
    /\ Len(body[c].releases[1].downloads) = 0
    /\ Len(body[c].releases[2].downloads) = 2
    /\ body[c].releases[2].episode # BatchLabel
    /\ Len(outcome[c].list) = 2
    /\ outcome[c].list[1].resolution = <<"7","2","0","p">>
    /\ outcome[c].list[2].resolution = <<"1","0","8","0","p">>

\* C4: with a target episode > 0, the entities that pass the episode
\* constraint are the non-batch ones whose episode number is the target or
\* the target plus the absolute offset; with target 0 all pass.
C4_EpisodeConstraint ==
  \A c \in Calls :
    SmartDone(c) =>
      LET target == args[c].episodeNumber
          offset == args[c].absoluteSeasonOffset
          Passes(t) == /\ ~t.isBatch
                       /\ t.episodeNumber \in {target, target + offset}
      IN  /\ target > 0 => epKept[c] = SelectSeq(torrents[c], Passes)
          /\ target = 0 => epKept[c] = torrents[c]

C4_Witness ==
  \E c \in Calls :
    /\ SmartDone(c)
    /\ args[c].episodeNumber = 5
    /\ args[c].absoluteSeasonOffset = 12
    /\ \E t \in Range(torrents[c]) : t.episodeNumber = 6
    /\ \E t \in Range(torrents[c]) : t.episodeNumber = 17
    /\ \E t \in Range(epKept[c]) : t.episodeNumber = 17
    /\ \A t \in Range(epKept[c]) : t.episodeNumber # 6

\* the integer a resolution string stands for
ResolutionValue(s) == ParseInt(RemoveFirst(s, "p"))

\* C5 as stated: whenever the target resolution is not empty, every returned
\* entity's resolution parses to the integer the target parses to, also for
\* a target that does not parse.
C5_AsStated ==
  \A c \in Calls :
    (SmartDone(c) /\ args[c].resolution # <<>>) =>
      \A t \in Range(outcome[c].list) :
        /\ ResolutionValue(t.resolution) # NaN
        /\ ResolutionValue(args[c].resolution) # NaN
        /\ ResolutionValue(t.resolution) = ResolutionValue(args[c].resolution)

\* C5 amended: when the target resolution is not empty and parses to an
\* integer, every returned entity's resolution parses to that integer; when
\* the target is empty or does not parse, the resolution constraint excludes
\* nothing.
C5_ResolutionConstraint ==
  \A c \in Calls :
    SmartDone(c) =>
      LET target == ResolutionValue(args[c].resolution)
      IN  IF args[c].resolution # <<>> /\ target # NaN
          THEN \A t \in Range(outcome[c].list) :
                 /\ ResolutionValue(t.resolution) # NaN
                 /\ ResolutionValue(t.resolution) = target
          ELSE outcome[c].list = epKept[c]

C5_Witness ==
  \E c \in Calls :
    /\ SmartDone(c)
    /\ args[c].resolution = <<"0","7","2","0">>
    /\ \E t \in Range(epKept[c]) : t.resolution = <<"1","0","8","0","p">>
    /\ \E t \in Range(epKept[c]) : t.resolution = <<"S","D","p">>
    /\ outcome[c].list # <<>>
    /\ \A t \in Range(outcome[c].list) : t.resolution = <<"7","2","0","p">>

SoloOutcome(a, st, b, clock) ==
  IF a.kind = "smartSearch" /\ a.batch THEN Returned(<<>>)
  ELSE IF st \notin 200..299 THEN Thrown("FetchFailure", st)
  ELSE IF b.tag = "invalid" THEN Thrown("SyntaxError", 0)
  ELSE IF a.kind = "smartSearch"
       THEN Returned(SmartFilter(ParseSearchResults(b, clock), a))
       ELSE Returned(ParseSearchResults(b, clock))

\* C7 as stated: the outcome of a call is a function of its arguments and of
\* the response to its request only: two calls with the same arguments and
\* the same response have the same outcome.
C7_AsStated ==
  \A c, d \in Calls :
    ( /\ Done(c) /\ Done(d)
      /\ args[c] = args[d]
      /\ status[c] = status[d]
      /\ body[c] = body[d] )
    => outcome[c] = outcome[d]

\* C7 amended: the outcome of a call is a function of its arguments, of the
\* response to its request and of the clock it read when it normalized the
\* payload: it is what the call returns when run alone with them.
C7_Independent ==
  \A c \in Calls :
    Done(c) => outcome[c] = SoloOutcome(args[c], status[c], body[c], clockRead[c])

C7_Witness ==
  \E c, d \in Calls :
    /\ c # d
    /\ Done(c)
    /\ pc[d] = "awaitResult"
    /\ body[c] # body[d]
    /\ args[c].kind = "smartSearch"
    /\ outcome[c].tag = "list"
    /\ outcome[c].list # <<>>
    /\ torrents[d] # <<>>

\* the occurrences of a marker in a string
Occurrences(s, lit) == { i \in 1..Len(s) : MatchesAt(s, i, lit) }

Least(S) == CHOOSE i \in S : \A j \in S : i <= j

\* u is t with its lower-case letters replaced by their upper-case ones
IsUpperCased(u, t) ==
  /\ Len(u) = Len(t)
  /\ \A k \in 1..Len(t) :
       IF IsLower(t[k])
       THEN \E j \in 1..26 : LowerChars[j] = t[k] /\ UpperChars[j] = u[k]
       ELSE u[k] = t[k]

\* tok is the alphanumeric token that starts at position p of s: all of its
\* characters are alphanumeric and the character after it, if any, is not
IsAlnumTokenAt(tok, s, p) ==
  /\ p + Len(tok) - 1 <= Len(s)
  /\ \A k \in 1..Len(tok) : s[p + k - 1] = tok[k] /\ IsAlnum(tok[k])
  /\ p + Len(tok) <= Len(s) => ~IsAlnum(s[p + Len(tok)])

\* n is the integer written at position p of s: the value of the digits
\* from p up to the first character that is not a digit
IsIntegerAt(n, s, p) ==
  \E e \in p..Len(s) :
    /\ \A k \in p..e : IsDigit(s[k])
    /\ e < Len(s) => ~IsDigit(s[e + 1])
    /\ n = DecimalValue(SubSeq(s, p, e))

\* the size and the size label, which the claim and its amendment share:
\* the integer after the first xl= that a digit follows, 0 without one, and
\* the label is "N/A" exactly for size 0
SizeAsClaimed ==
  LET xs == { i \in Occurrences(magnet, XlMarker) :
                i + 3 <= Len(magnet) /\ IsDigit(magnet[i + 3]) }
  IN  /\ IF xs = {} THEN parsed.size = 0
         ELSE IsIntegerAt(parsed.size, magnet, Least(xs) + 3)
      /\ parsed.formattedSize.unit = "N/A" <=> parsed.size = 0

ExamplesAsClaimed ==
  /\ magnet = MagnetWithSize =>
       /\ parsed.infoHash = <<"A","B","C","D","1","2","3","4">>
       /\ parsed.size = 1048576
  /\ magnet = MagnetBare => (parsed.infoHash = <<>> /\ parsed.size = 0)

\* C8 as stated: the info-hash is the upper-cased alphanumeric token after
\* the first btih: marker, empty when the marker is absent or no
\* alphanumeric character follows it; the size is the integer after xl=,
\* 0 when absent; the size label is "N/A" exactly when the size is 0.
C8_AsStated ==
  parsed.done =>
    LET bs == Occurrences(magnet, BtihMarker)
    IN  /\ IF bs = {} THEN parsed.infoHash = <<>>
           ELSE \E tok \in {SubSeq(magnet, Least(bs) + 5, e) : e \in (Least(bs) + 4)..Len(magnet)} :
                  /\ IsAlnumTokenAt(tok, magnet, Least(bs) + 5)
                  /\ IsUpperCased(parsed.infoHash, tok)
        /\ SizeAsClaimed
        /\ ExamplesAsClaimed

\* C8 amended: the info-hash is the upper-cased alphanumeric token after the
\* first btih: marker that an alphanumeric character follows, empty when
\* there is no such marker; size and size label as stated.
C8_MagnetParser ==
  parsed.done =>
    LET bs == { i \in Occurrences(magnet, BtihMarker) :
                  i + 5 <= Len(magnet) /\ IsAlnum(magnet[i + 5]) }
    IN  /\ IF bs = {} THEN parsed.infoHash = <<>>
           ELSE \E tok \in {SubSeq(magnet, Least(bs) + 5, e) : e \in (Least(bs) + 5)..Len(magnet)} :
                  /\ IsAlnumTokenAt(tok, magnet, Least(bs) + 5)
                  /\ IsUpperCased(parsed.infoHash, tok)
        /\ SizeAsClaimed
        /\ ExamplesAsClaimed

C8_Witness ==
  /\ parsed.done
  /\ magnet = MagnetLower
  /\ parsed.infoHash = <<"A","B","9","F">>
  /\ parsed.size = 500
  /\ parsed.formattedSize.unit = "MB"

\* C9: every entity's episode number is a non-negative integer or -1; when
\* it is not -1 it is the integer parse of the release's episode label, and
\* it is -1 exactly when the label does not parse.
C9_EpisodeNumber ==
  \A c \in Calls :
    Built(c) =>
      LET ds == NonBatchDownloads(body[c].releases)
      IN  \A i \in 1..Len(torrents[c]) :
            LET ep == torrents[c][i].episodeNumber
                label == ParseInt(ds[i].label)
            IN  /\ ep >= 0 \/ ep = -1
                /\ ep # -1 => ep = label
                /\ ep = -1 <=> label = NaN

\* the episode constraint, present for a target > 0
SatisfiesEpisode(t, a) ==
  a.episodeNumber > 0 =>
    /\ ~t.isBatch
    /\ t.episodeNumber \in {a.episodeNumber, a.episodeNumber + a.absoluteSeasonOffset}

\* the resolution values of the entity and of the target are equal numbers
SameResolution(t, a) ==
  /\ ResolutionValue(t.resolution) # NaN
  /\ ResolutionValue(a.resolution) # NaN
  /\ ResolutionValue(t.resolution) = ResolutionValue(a.resolution)

\* C10 as stated: without batch, the result is the subsequence of the built
\* list made of the entities that satisfy every present constraint, the
\* episode constraint being present for a target > 0 and the resolution
\* constraint for a target that is not empty; with target 0 and target ""
\* it is the built list.
C10_AsStated ==
  \A c \in Calls :
    SmartDone(c) =>
      LET a == args[c]
          Keep(t) == /\ SatisfiesEpisode(t, a)
                     /\ a.resolution # <<>> => SameResolution(t, a)
      IN  /\ outcome[c].list = SelectSeq(torrents[c], Keep)
          /\ (a.episodeNumber = 0 /\ a.resolution = <<>>) => outcome[c].list = torrents[c]

\* C10 amended: the same, the resolution constraint being present for a
\* target that is not empty and parses to an integer.
C10_Subsequence ==
  \A c \in Calls :
    SmartDone(c) =>
      LET a == args[c]
          Keep(t) == /\ SatisfiesEpisode(t, a)
                     /\ (a.resolution # <<>> /\ ResolutionValue(a.resolution) # NaN)
                          => SameResolution(t, a)
      IN  /\ outcome[c].list = SelectSeq(torrents[c], Keep)
          /\ (a.episodeNumber = 0 /\ a.resolution = <<>>) => outcome[c].list = torrents[c]

C10_Witness ==
  \E c \in Calls :
    /\ SmartDone(c)
    /\ args[c].episodeNumber = 5
    /\ args[c].resolution = <<"1","0","8","0","p">>
    /\ Len(torrents[c]) = 3
    /\ \E t \in Range(torrents[c]) : t.episodeNumber = 5 /\ t.resolution = <<"7","2","0","p">>
    /\ \E t \in Range(torrents[c]) : t.episodeNumber = 17 /\ t.resolution = <<"1","0","8","0","p">>
    /\ Len(outcome[c].list) = 2
    /\ outcome[c].list[1].episodeNumber = 5
    /\ outcome[c].list[2].episodeNumber = 17

====
